---- MODULE Spec2Model ----
(***************************************************************************)
(* Verification model of the collaborative-editing backend:                *)
(*   - the OT kernel            (src/src/services/ot_engine.rs)            *)
(*   - the session manager      (src/src/services/collaboration.rs)        *)
(*   - the permission resolver  (src/src/services/inheritance.rs)          *)
(* Strings are sequences of one-character strings; a position is a byte    *)
(* offset, i.e. an index into that sequence counted from 0.                *)
(***************************************************************************)
EXTENDS Integers, Sequences, FiniteSets, TLC

VARIABLES
    \* kernel checks: the inputs drawn and the two sides of the TP1 square
    otS, otA, otB, otPc, otLeft, otRight,
    \* CollaborationManager: the two DashMaps
    active_sessions, channels,
    \* callers inside create_session / close_session, which take the maps'
    \* locks one call at a time
    thread,
    \* the value the last finished call returned
    result,
    \* history: the versions returned by the successful submits on the
    \* SessionState currently stored under each session id
    returned,
    \* submission-order check: the document and the two operations drawn
    convS, convA, convB,
    \* the store the resolver reads: the member rows (team_members /
    \* project_members) and the enabled hierarchy edges <<parent, child>>
    members, hierarchy,
    \* InheritanceEngine: its config, its cache, the resolve call in flight
    \* and the value the last finished resolve returned
    config, cache, rs, resolved,
    \* history: the cache keys <<user, resource>> whose member row a handler
    \* wrote since the cache was last cleared for that key
    written,
    \* merge_permissions called on its own: the two arguments and the value
    \* returned
    merge_direct, merge_inherited, merge_result,
    \* build_hierarchy_tree: the frames of the recursion in progress, outermost
    \* first, and the tree the outermost call returned
    tree_stack, tree_result

otVars == <<otS, otA, otB, otPc, otLeft, otRight>>

sessVars == <<active_sessions, channels, thread, result, returned>>

convVars == <<convS, convA, convB>>

resVars == <<members, hierarchy, config, cache, rs, resolved, written>>

mergeVars == <<merge_direct, merge_inherited, merge_result>>

treeVars == <<tree_stack, tree_result>>

vars == <<otVars, sessVars, convVars, resVars, mergeVars, treeVars>>

(***************************************************************************)
(* Bounds of the model                                                     *)
(***************************************************************************)
MaxDocLen == 3
MaxInsLen == 2
\* longest operations log of a session
MaxOps == 2
\* largest max_depth an InheritanceConfig is given in the resolver checks
MaxDepthCfg == 2
\* tokens in one permission list handed to merge_permissions
MaxPermsLen == 2
\* inherited contributions handed to merge_permissions
MaxContribs == 1
\* frames of build_hierarchy_tree followed
MaxTreeDepth == 4

(***************************************************************************)
(* Small helpers for usize arithmetic                                      *)
(***************************************************************************)
Min(a, b) == IF a <= b THEN a ELSE b

Max(a, b) == IF a >= b THEN a ELSE b

\* usize::saturating_sub
saturating_sub(a, b) == IF a >= b THEN a - b ELSE 0

\* &content[from..to] with 0-based half-open byte offsets
Slice(content, from, to) == SubSeq(content, from + 1, to)

(***************************************************************************)
(* Operation model (models/collaboration.rs): one record shape for the     *)
(* three variants of OperationType; unused fields hold a neutral value.    *)
(***************************************************************************)
Insert(id, version, user_id, position, content) ==
    [id |-> id, version |-> version, user_id |-> user_id, kind |-> "Insert",
     position |-> position, length |-> 0, content |-> content, old_content |-> <<>>]

Delete(id, version, user_id, position, length) ==
    [id |-> id, version |-> version, user_id |-> user_id, kind |-> "Delete",
     position |-> position, length |-> length, content |-> <<>>, old_content |-> <<>>]

Replace(id, version, user_id, position, old_content, new_content) ==
    [id |-> id, version |-> version, user_id |-> user_id, kind |-> "Replace",
     position |-> position, length |-> 0, content |-> new_content,
     old_content |-> old_content]

(***************************************************************************)
(* OTEngine::transform_against                                             *)
(***************************************************************************)
OT_insert_insert(base_op, other_op) ==
    LET base_pos == base_op.position
        other_pos == other_op.position
        new_pos == IF other_pos < base_pos
                     THEN base_pos + Len(base_op.content)
                   ELSE IF other_pos = base_pos
                     THEN IF base_op.id < other_op.id
                            THEN base_pos
                            ELSE base_pos + Len(base_op.content)
                   ELSE base_pos
    IN  [base_op EXCEPT !.position = new_pos]

\* variant: an insert inside the deleted range is shifted by the whole
\* length of the delete instead of collapsing to its start
OT_insert_delete_ShiftInside(base_op, other_op) ==
    LET base_pos == base_op.position
        del_pos == other_op.position
        del_len == other_op.length
        new_pos == IF del_pos < base_pos
                     THEN saturating_sub(base_pos, del_len)
                     ELSE base_pos
    IN  [base_op EXCEPT !.position = new_pos]

OT_insert_delete(base_op, other_op) ==
    LET base_pos == base_op.position
        del_pos == other_op.position
        del_len == other_op.length
        new_pos == IF del_pos < base_pos /\ del_pos + del_len > base_pos
                     THEN del_pos
                   ELSE IF del_pos < base_pos
                     THEN saturating_sub(base_pos, del_len)
                   ELSE base_pos
    IN  [base_op EXCEPT !.position = new_pos]

OT_delete_insert(base_op, other_op) ==
    LET base_pos == base_op.position
        base_len == base_op.length
        ins_pos == other_op.position
    IN  IF ins_pos < base_pos
          THEN [base_op EXCEPT !.position = base_pos + Len(other_op.content)]
        ELSE IF ins_pos >= base_pos /\ ins_pos < base_pos + base_len
          THEN [base_op EXCEPT !.length = saturating_sub(base_len, 1)]
        ELSE [base_op EXCEPT !.position = base_pos]

OT_delete_delete(base_op, other_op) ==
    LET base_pos == base_op.position
        base_len == base_op.length
        other_pos == other_op.position
        other_len == other_op.length
        overlap == (other_pos + other_len) - base_pos
        overlap_end == Min(base_pos + base_len, other_pos + other_len)
        new == IF other_pos < base_pos
                 THEN IF other_pos + other_len > base_pos
                        THEN <<other_pos,
                               saturating_sub(base_len, Min(overlap, base_len))>>
                        ELSE <<saturating_sub(base_pos, other_len), base_len>>
               ELSE IF other_pos >= base_pos /\ other_pos < base_pos + base_len
                 THEN <<base_pos, Max(overlap_end - base_pos, other_pos - base_pos)>>
               ELSE <<base_pos, base_len>>
    IN  [base_op EXCEPT !.position = new[1], !.length = new[2]]

transform_against(base_op, other_op) ==
    CASE base_op.kind = "Insert" /\ other_op.kind = "Insert" ->
            OT_insert_insert(base_op, other_op)
      [] base_op.kind = "Insert" /\ other_op.kind = "Delete" ->
            OT_insert_delete(base_op, other_op)
      [] base_op.kind = "Delete" /\ other_op.kind = "Insert" ->
            OT_delete_insert(base_op, other_op)
      [] base_op.kind = "Delete" /\ other_op.kind = "Delete" ->
            OT_delete_delete(base_op, other_op)
      [] OTHER -> base_op

(***************************************************************************)
(* OTEngine::apply_operation                                               *)
(***************************************************************************)
OTEngine_apply_operation(content, op) ==
    CASE op.kind = "Insert" ->
            LET pos == Min(op.position, Len(content))
            IN  Slice(content, 0, pos) \o op.content \o Slice(content, pos, Len(content))
      [] op.kind = "Delete" ->
            LET start == Min(op.position, Len(content))
                end == Min(start + op.length, Len(content))
            IN  Slice(content, 0, start) \o Slice(content, end, Len(content))
      [] op.kind = "Replace" ->
            LET pos == Min(op.position, Len(content))
            IN  Slice(content, 0, pos) \o op.content \o Slice(content, pos, Len(content))

(***************************************************************************)
(* usize arithmetic. Positions and lengths are usize; the model keeps the  *)
(* wrap-around of the type at a width of UsizeBits bits instead of the     *)
(* target's 64 (or 32), so that usize::MAX is a value the checks can draw. *)
(***************************************************************************)
UsizeBits == 4

UsizeModulus == 2 ^ UsizeBits

UsizeMax == UsizeModulus - 1

\* a + b as a build without overflow checks computes it
wrapping_add(a, b) == (a + b) % UsizeModulus

(***************************************************************************)
(* OTEngine::validate_operation: "Ok" or the kind of the error. The sum in *)
(* the Delete arm is the one a build without overflow checks computes;     *)
(* validate_operation_outcomes adds the panic of a build with them.        *)
(***************************************************************************)
validate_operation(op, content_length) ==
    CASE op.kind = "Insert" ->
            IF op.position > content_length THEN "Insert position exceeds content length"
            ELSE IF op.content = <<>> THEN "Insert content cannot be empty"
            ELSE "Ok"
      [] op.kind = "Delete" ->
            IF op.position >= content_length THEN "Delete position exceeds content length"
            ELSE IF op.length = 0 THEN "Delete length must be greater than 0"
            ELSE IF wrapping_add(op.position, op.length) > content_length
              THEN "Delete range exceeds content length"
            ELSE "Ok"
      [] op.kind = "Replace" ->
            IF op.position > content_length THEN "Replace position exceeds content length"
            ELSE IF op.old_content = <<>> /\ op.content = <<>>
              THEN "Replace must have non-empty old or new content"
            ELSE "Ok"

\* Every outcome a build can produce: `position + length` panics on overflow
\* when overflow checks are on (the dev profile) and wraps when they are off
\* (the release profile). The sum is reached only after the first two tests
\* of the Delete arm passed.
validate_operation_outcomes(op, content_length) ==
    IF /\ op.kind = "Delete"
       /\ op.position < content_length
       /\ op.length # 0
       /\ op.position + op.length >= UsizeModulus
      THEN {"Panic", validate_operation(op, content_length)}
      ELSE {validate_operation(op, content_length)}

(***************************************************************************)
(* Input spaces of the kernel checks                                       *)
(***************************************************************************)
DocAlphabet == <<"a", "b", "c", "d", "e", "f">>

\* The document of length n. Its characters are pairwise distinct, so two
\* results of apply are equal only if they keep and place the same bytes.
Doc(n) == SubSeq(DocAlphabet, 1, n)

Docs == {Doc(n) : n \in 0..MaxDocLen}

InsChars == {"X", "Y"}

SeqsUpTo(S, n) == UNION {[1..k -> S] : k \in 0..n}

Contents == SeqsUpTo(InsChars, MaxInsLen)

OpIds == {1, 2}

KernelUser == "u1"

\* Every Insert/Delete shape up to one past the document, valid or not.
KernelOps(id) ==
    {Insert(id, 1, KernelUser, p, c) : p \in 0..(MaxDocLen + 1), c \in Contents}
      \cup
    {Delete(id, 1, KernelUser, p, l) : p \in 0..(MaxDocLen + 1), l \in 0..(MaxDocLen + 1)}

(***************************************************************************)
(* Partial maps (DashMap, HashMap)                                         *)
(***************************************************************************)
EmptyMap == [k \in {} |-> 0]

\* insert(k, v): adds the key or overwrites its value
MapInsert(m, k, v) == [x \in (DOMAIN m) \cup {k} |-> IF x = k THEN v ELSE m[x]]

\* remove(k)
MapRemove(m, k) == [x \in (DOMAIN m) \ {k} |-> m[x]]

\* Option<T>
None == <<>>

Some(v) == <<v>>

(***************************************************************************)
(* Identities and inputs of the session manager                            *)
(***************************************************************************)
Sessions == {"s1"}

Files == {"f1"}

Users == {"u1", "u2"}

Threads == {"t1", "t2"}

\* Result<_, String> of the manager's calls
NoResult == [status |-> "None", kind |-> "none", num |-> 0, msg |-> ""]

OkUnit == [status |-> "Ok", kind |-> "unit", num |-> 0, msg |-> ""]

OkU32(v) == [status |-> "Ok", kind |-> "u32", num |-> v, msg |-> ""]

Err(msg) == [status |-> "Err", kind |-> "err", num |-> 0, msg |-> msg]

\* CursorUpdate payloads a client sends
CursorInputs ==
    {[cursor_position |-> 42, selection_start |-> Some(40), selection_end |-> Some(50)]}

\* The observed versions clients send with their operations
ClientVersions == {0, 1}

\* The id a client gives its operations
ClientOpId(u) == IF u = "u1" THEN 1 ELSE 2

\* Operations a client submits in the session specification: a valid insert
\* at each observed version, and three operations no document length makes
\* valid (empty insert, zero-length delete, replace with both sides empty).
SubmitOps ==
    UNION {
        {Insert(ClientOpId(u), v, u, 0, <<"X">>) : v \in ClientVersions}
          \cup
        {Insert(ClientOpId(u), 0, u, 1, <<>>),
         Delete(ClientOpId(u), 0, u, 1, 0),
         Replace(ClientOpId(u), 0, u, 0, <<>>, <<>>)}
        : u \in Users}

(***************************************************************************)
(* CollaborationManager::transform_against_single and transform_operation  *)
(***************************************************************************)
CM_insert_insert(base_op, concurrent_op) ==
    LET base_pos == base_op.position
        conc_pos == concurrent_op.position
        new_position == IF conc_pos < base_pos
                          THEN base_pos + Len(base_op.content)
                          ELSE base_pos
    IN  [base_op EXCEPT !.position = new_position]

CM_insert_delete(base_op, concurrent_op) ==
    LET base_pos == base_op.position
        del_pos == concurrent_op.position
        del_len == concurrent_op.length
        new_position == IF del_pos <= base_pos
                          THEN saturating_sub(base_pos, Min(del_len, base_pos - del_pos))
                          ELSE base_pos
    IN  [base_op EXCEPT !.position = new_position]

CM_delete_insert(base_op, concurrent_op) ==
    LET base_pos == base_op.position
        ins_pos == concurrent_op.position
        new_position == IF ins_pos < base_pos
                          THEN base_pos + Len(concurrent_op.content)
                          ELSE base_pos
    IN  [base_op EXCEPT !.position = new_position]

CM_delete_delete(base_op, concurrent_op) ==
    LET base_pos == base_op.position
        del_pos == concurrent_op.position
        del_len == concurrent_op.length
        new_position == IF del_pos < base_pos
                          THEN saturating_sub(base_pos, Min(del_len, base_pos - del_pos))
                          ELSE base_pos
    IN  [base_op EXCEPT !.position = new_position]

transform_against_single(base_op, concurrent_op) ==
    CASE base_op.kind = "Insert" /\ concurrent_op.kind = "Insert" ->
            CM_insert_insert(base_op, concurrent_op)
      [] base_op.kind = "Insert" /\ concurrent_op.kind = "Delete" ->
            CM_insert_delete(base_op, concurrent_op)
      [] base_op.kind = "Delete" /\ concurrent_op.kind = "Insert" ->
            CM_delete_insert(base_op, concurrent_op)
      [] base_op.kind = "Delete" /\ concurrent_op.kind = "Delete" ->
            CM_delete_delete(base_op, concurrent_op)
      [] OTHER -> base_op

RECURSIVE transform_operation(_, _)
transform_operation(base_op, concurrent_ops) ==
    IF concurrent_ops = <<>>
      THEN base_op
      ELSE transform_operation(transform_against_single(base_op, Head(concurrent_ops)),
                               Tail(concurrent_ops))

(***************************************************************************)
(* Session state                                                           *)
(***************************************************************************)
NewSessionState(session_id, file_id) ==
    [session_id |-> session_id, file_id |-> file_id, participants |-> EmptyMap,
     operations |-> <<>>, version |-> 0]

NewParticipantState(user_id) ==
    [user_id |-> user_id, cursor_position |-> None, selection_start |-> None,
     selection_end |-> None]

\* broadcast::channel(1000): the messages sent on the new Sender so far
NewChannel == [sent |-> <<>>]

IdleThread == [pc |-> "idle", session_id |-> "s1", file_id |-> "f1"]

\* The operations of the log an incoming operation is transformed against
concurrent_ops(session, operation) ==
    SelectSeq(session.operations,
              LAMBDA op : op.version >= operation.version
                          /\ op.user_id # operation.user_id)

\* The operation apply_operation appends to the log
AppliedOperation(session, operation) ==
    IF concurrent_ops(session, operation) # <<>>
      THEN transform_operation(operation, concurrent_ops(session, operation))
      ELSE operation

\* A manager whose counter follows the version the client sent instead of
\* counting the log
SessionAfterApply_ClientVersion(session, operation) ==
    [session EXCEPT !.operations = Append(@, AppliedOperation(session, operation)),
                    !.version = operation.version + 1]

\* The session after apply_operation's critical section. version is a u32; the
\* bound on the log keeps it far below the point where += 1 overflows.
SessionAfterApply(session, operation) ==
    [session EXCEPT !.operations = Append(@, AppliedOperation(session, operation)),
                    !.version = @ + 1]

(***************************************************************************)
(* Actions of the session manager. Every method that goes through          *)
(* get_mut / get holds the entry's lock for its whole body and is one      *)
(* step; create_session and close_session are a sequence of separate map   *)
(* calls and are one step per call.                                        *)
(***************************************************************************)
OTIdle ==
    /\ otS = <<>>
    /\ otA = Insert(1, 1, KernelUser, 0, <<>>)
    /\ otB = Insert(2, 1, KernelUser, 0, <<>>)
    /\ otPc = "off"
    /\ otLeft = <<>>
    /\ otRight = <<>>

SessIdle ==
    /\ active_sessions = EmptyMap
    /\ channels = EmptyMap
    /\ thread = [t \in Threads |-> IdleThread]
    /\ result = NoResult
    /\ returned = EmptyMap

TreeIdle ==
    /\ tree_stack = <<>>
    /\ tree_result = None

MergeIdle ==
    /\ merge_direct = <<>>
    /\ merge_inherited = <<>>
    /\ merge_result = None

ConvIdle ==
    /\ convS = <<>>
    /\ convA = Insert(1, 0, "u1", 0, <<>>)
    /\ convB = Insert(2, 0, "u2", 0, <<>>)

\* create_session, line 45: contains_key
CreateCheck(t, session_id, file_id) ==
    /\ thread[t].pc = "idle"
    /\ IF session_id \in DOMAIN active_sessions
         THEN /\ result' = Err("Session already exists")
              /\ UNCHANGED thread
         ELSE /\ thread' = [thread EXCEPT ![t] = [pc |-> "create_insert",
                                                  session_id |-> session_id,
                                                  file_id |-> file_id]]
              /\ UNCHANGED result
    /\ UNCHANGED <<active_sessions, channels, returned, otVars, convVars, mergeVars, treeVars, resVars>>

\* create_session, lines 49-57: active_sessions.insert
CreateInsertSession(t) ==
    /\ thread[t].pc = "create_insert"
    /\ active_sessions' = MapInsert(active_sessions, thread[t].session_id,
                              NewSessionState(thread[t].session_id, thread[t].file_id))
    /\ returned' = MapInsert(returned, thread[t].session_id, <<>>)
    /\ thread' = [thread EXCEPT ![t].pc = "create_channel"]
    /\ UNCHANGED <<channels, result, otVars, convVars, mergeVars, treeVars, resVars>>

\* create_session, lines 60-63: channels.insert, Ok(())
CreateInsertChannel(t) ==
    /\ thread[t].pc = "create_channel"
    /\ channels' = MapInsert(channels, thread[t].session_id, NewChannel)
    /\ result' = OkUnit
    /\ thread' = [thread EXCEPT ![t] = IdleThread]
    /\ UNCHANGED <<active_sessions, returned, otVars, convVars, mergeVars, treeVars, resVars>>

join_session(session_id, user_id) ==
    /\ IF session_id \in DOMAIN active_sessions
         THEN /\ active_sessions' =
                    [active_sessions EXCEPT ![session_id].participants =
                        MapInsert(@, user_id, NewParticipantState(user_id))]
              /\ result' = OkUnit
         ELSE /\ result' = Err("Session not found")
              /\ UNCHANGED active_sessions
    /\ UNCHANGED <<channels, thread, returned, otVars, convVars, mergeVars, treeVars, resVars>>

leave_session(session_id, user_id) ==
    /\ IF session_id \in DOMAIN active_sessions
         THEN /\ active_sessions' =
                    [active_sessions EXCEPT ![session_id].participants =
                        MapRemove(@, user_id)]
              /\ result' = OkUnit
         ELSE /\ result' = Err("Session not found")
              /\ UNCHANGED active_sessions
    /\ UNCHANGED <<channels, thread, returned, otVars, convVars, mergeVars, treeVars, resVars>>

\* A manager that writes the caller's cursor into every participant's entry
update_cursor_AllParticipants(session_id, user_id, cursor_update) ==
    /\ IF session_id \in DOMAIN active_sessions
         THEN IF user_id \in DOMAIN active_sessions[session_id].participants
                THEN /\ active_sessions' =
                           [active_sessions EXCEPT ![session_id].participants =
                               [p \in DOMAIN @ |->
                                  [@[p] EXCEPT
                                     !.cursor_position = Some(cursor_update.cursor_position),
                                     !.selection_start = cursor_update.selection_start,
                                     !.selection_end = cursor_update.selection_end]]]
                     /\ result' = OkUnit
                ELSE /\ result' = Err("User not in session")
                     /\ UNCHANGED active_sessions
         ELSE /\ result' = Err("Session not found")
              /\ UNCHANGED active_sessions
    /\ UNCHANGED <<channels, thread, returned, otVars, convVars, mergeVars, treeVars,
                   resVars>>

\* CollaborationManager::update_cursor; user_id is cursor_update.user_id
update_cursor(session_id, user_id, cursor_update) ==
    /\ IF session_id \in DOMAIN active_sessions
         THEN IF user_id \in DOMAIN active_sessions[session_id].participants
                THEN /\ active_sessions' =
                           [active_sessions EXCEPT ![session_id].participants[user_id] =
                               [@ EXCEPT
                                  !.cursor_position = Some(cursor_update.cursor_position),
                                  !.selection_start = cursor_update.selection_start,
                                  !.selection_end = cursor_update.selection_end]]
                     /\ result' = OkUnit
                ELSE /\ result' = Err("User not in session")
                     /\ UNCHANGED active_sessions
         ELSE /\ result' = Err("Session not found")
              /\ UNCHANGED active_sessions
    /\ UNCHANGED <<channels, thread, returned, otVars, convVars, mergeVars, treeVars, resVars>>

\* CollaborationManager::apply_operation, the submit of a client's operation
apply_operation(session_id, operation) ==
    /\ IF session_id \in DOMAIN active_sessions
         THEN /\ Len(active_sessions[session_id].operations) < MaxOps
              /\ active_sessions' =
                    [active_sessions EXCEPT ![session_id] =
                        SessionAfterApply(@, operation)]
              /\ result' = OkU32(active_sessions'[session_id].version)
              /\ returned' = [returned EXCEPT ![session_id] =
                                 Append(@, active_sessions'[session_id].version)]
         ELSE /\ result' = Err("Session not found")
              /\ UNCHANGED <<active_sessions, returned>>
    /\ UNCHANGED <<channels, thread, otVars, convVars, mergeVars, treeVars, resVars>>

\* CollaborationManager::get_version
get_version(session_id) ==
    IF session_id \in DOMAIN active_sessions
      THEN OkU32(active_sessions[session_id].version)
      ELSE Err("Session not found")

\* A detect_conflicts that leaves out the operations at incoming_version itself
detect_conflicts_StrictlyAbove(session_id, incoming_version) ==
    IF session_id \in DOMAIN active_sessions
      THEN [status |-> "Ok",
            conflicts |-> SelectSeq(active_sessions[session_id].operations,
                                    LAMBDA op : op.version > incoming_version)]
      ELSE [status |-> "Err", msg |-> "Session not found"]

\* CollaborationManager::detect_conflicts: Ok(the logged operations at or
\* above incoming_version) or the error
detect_conflicts(session_id, incoming_version) ==
    IF session_id \in DOMAIN active_sessions
      THEN [status |-> "Ok",
            conflicts |-> SelectSeq(active_sessions[session_id].operations,
                                    LAMBDA op : op.version >= incoming_version)]
      ELSE [status |-> "Err", msg |-> "Session not found"]

\* CollaborationManager::get_channel: Ok(a clone of the Sender) or the error
get_channel(session_id) ==
    IF session_id \in DOMAIN channels
      THEN [status |-> "Ok", channel |-> channels[session_id]]
      ELSE [status |-> "Err", msg |-> "Session channel not found"]

\* The versions a client asks detect_conflicts about
IncomingVersions == {0, 1}

\* A call of detect_conflicts: the caller is handed the list; the method takes
\* the entry with get (a read guard) and writes nothing
DetectConflictsCall(session_id, incoming_version) ==
    /\ result' = detect_conflicts(session_id, incoming_version)
    /\ UNCHANGED <<active_sessions, channels, thread, returned, otVars, convVars,
                   mergeVars, treeVars, resVars>>

\* close_session, line 326: active_sessions.remove
CloseRemoveSession(t, session_id) ==
    /\ thread[t].pc = "idle"
    /\ active_sessions' = MapRemove(active_sessions, session_id)
    /\ returned' = MapRemove(returned, session_id)
    /\ thread' = [thread EXCEPT ![t] = [pc |-> "close_channel",
                                        session_id |-> session_id,
                                        file_id |-> "f1"]]
    /\ UNCHANGED <<channels, result, otVars, convVars, mergeVars, treeVars, resVars>>

\* close_session, lines 327-328: channels.remove, Ok(())
CloseRemoveChannel(t) ==
    /\ thread[t].pc = "close_channel"
    /\ channels' = MapRemove(channels, thread[t].session_id)
    /\ result' = OkUnit
    /\ thread' = [thread EXCEPT ![t] = IdleThread]
    /\ UNCHANGED <<active_sessions, returned, otVars, convVars, mergeVars, treeVars, resVars>>

(***************************************************************************)
(* Permission resolver (services/inheritance.rs)                           *)
(***************************************************************************)
Resources == {"A", "B", "C"}

\* String order of the permission tokens (Vec<String>::sort)
TokenOrder == <<"admin", "delete", "read", "write">>

TokenRank(tok) == CHOOSE i \in 1..Len(TokenOrder) : TokenOrder[i] = tok

Contains(seq, x) == \E i \in 1..Len(seq) : seq[i] = x

\* InheritanceConfig::default
DefaultMaxDepth == 5

DefaultConfig == [enabled |-> TRUE, max_depth |-> DefaultMaxDepth]

\* get_direct_permissions: the permissions column of the user's row, [] when
\* there is no row
get_direct_permissions(user_id, resource_id) ==
    IF <<resource_id, user_id>> \in DOMAIN members
      THEN members[<<resource_id, user_id>>].permissions
      ELSE <<>>

\* get_user_role: the role column of the user's row, "viewer" when there is none
get_user_role(user_id, resource_id) ==
    IF <<resource_id, user_id>> \in DOMAIN members
      THEN members[<<resource_id, user_id>>].role
      ELSE "viewer"

\* get_parents: the parents over enabled edges. The query has no ORDER BY, so
\* the rows come back in any order.
get_parents(resource_id) == {e[1] : e \in {x \in hierarchy : x[2] = resource_id}}

Orderings(S) ==
    {q \in [1..Cardinality(S) -> S] : \A i, j \in 1..Cardinality(S) : q[i] = q[j] => i = j}

\* Vec::sort on tokens (insertion into a sorted prefix)
RECURSIVE SortInsert(_, _)
SortInsert(sorted, x) ==
    IF sorted = <<>> THEN <<x>>
    ELSE IF TokenRank(x) < TokenRank(Head(sorted)) THEN <<x>> \o sorted
    ELSE <<Head(sorted)>> \o SortInsert(Tail(sorted), x)

RECURSIVE SortTokens(_)
SortTokens(seq) ==
    IF seq = <<>> THEN <<>> ELSE SortInsert(SortTokens(Tail(seq)), Head(seq))

\* Vec::dedup: drops an element equal to the one before it
RECURSIVE Dedup(_)
Dedup(seq) ==
    IF Len(seq) <= 1 THEN seq
    ELSE IF seq[1] = seq[2] THEN Dedup(Tail(seq))
    ELSE <<seq[1]>> \o Dedup(Tail(seq))

\* the inner loop of merge_permissions: push each token not yet contained
RECURSIVE PushMissing(_, _)
PushMissing(merged, perms) ==
    IF perms = <<>> THEN merged
    ELSE PushMissing(IF Contains(merged, Head(perms)) THEN merged
                     ELSE Append(merged, Head(perms)),
                     Tail(perms))

RECURSIVE MergeLoop(_, _)
MergeLoop(merged, inherited) ==
    IF inherited = <<>> THEN merged
    ELSE MergeLoop(PushMissing(merged, Head(inherited).permissions), Tail(inherited))

\* A merge that sorts but keeps the repeats of the direct list
merge_permissions_NoDedup(direct, inherited) == SortTokens(MergeLoop(direct, inherited))

merge_permissions(direct, inherited) == Dedup(SortTokens(MergeLoop(direct, inherited)))

\* The body of the loop over the parents of current_id (lines 142-166):
\* st = <<inherited, to_process>>
RECURSIVE ForParents(_, _, _, _)
ForParents(st, parents, depth, user_id) ==
    IF parents = <<>> THEN st
    ELSE LET parent_id == Head(parents)
             parent_perms == get_direct_permissions(user_id, parent_id)
             info == [source_id |-> parent_id, permissions |-> parent_perms,
                      depth |-> depth + 1,
                      from_role |-> get_user_role(user_id, parent_id)]
             next == IF parent_perms # <<>>
                       THEN <<Append(st[1], info),
                              IF depth < config.max_depth
                                THEN Append(st[2], <<parent_id, depth + 1>>)
                                ELSE st[2]>>
                       ELSE st
         IN  ForParents(next, Tail(parents), depth, user_id)

IdleResolve ==
    [pc |-> "idle", user_id |-> "u1", resource_id |-> "A", direct |-> <<>>,
     to_process |-> <<>>, processed |-> {}, inherited |-> <<>>]

NotResolved ==
    [user_id |-> "u1", resource_id |-> "A", direct_permissions |-> <<>>,
     inherited_permissions |-> <<>>, effective_permissions |-> <<>>,
     role |-> "none"]

\* resolve_permissions, lines 31-47: cache lookup, direct permissions, and the
\* start of get_inherited_permissions (lines 125-131)
ResolveStart(user_id, resource_id) ==
    /\ rs.pc = "idle"
    /\ IF <<user_id, resource_id>> \in DOMAIN cache
         THEN /\ resolved' = cache[<<user_id, resource_id>>]
              /\ UNCHANGED rs
         ELSE /\ rs' = [pc |-> "traverse", user_id |-> user_id,
                        resource_id |-> resource_id,
                        direct |-> get_direct_permissions(user_id, resource_id),
                        to_process |-> IF config.enabled
                                         THEN << <<resource_id, 0>> >>
                                         ELSE <<>>,
                        processed |-> {}, inherited |-> <<>>]
              /\ UNCHANGED resolved
    /\ UNCHANGED <<members, hierarchy, config, cache, written,
                   otVars, sessVars, convVars, mergeVars, treeVars>>

\* get_inherited_permissions: one iteration of the while loop (lines 133-167)
TraverseStep ==
    /\ rs.pc = "traverse"
    /\ rs.to_process # <<>>
    /\ LET top == rs.to_process[Len(rs.to_process)]
           current_id == top[1]
           depth == top[2]
           popped == SubSeq(rs.to_process, 1, Len(rs.to_process) - 1)
       IN  IF depth > config.max_depth \/ current_id \in rs.processed
             THEN rs' = [rs EXCEPT !.to_process = popped]
             ELSE \E parents \in Orderings(get_parents(current_id)) :
                    LET st == ForParents(<<rs.inherited, popped>>, parents, depth,
                                         rs.user_id)
                    IN  rs' = [rs EXCEPT !.processed = @ \cup {current_id},
                                         !.inherited = st[1],
                                         !.to_process = st[2]]
    /\ UNCHANGED <<members, hierarchy, config, cache, resolved, written,
                   otVars, sessVars, convVars, mergeVars, treeVars>>

\* resolve_permissions, lines 49-70: merge, role, cache insert, return
ResolveFinish ==
    /\ rs.pc = "traverse"
    /\ rs.to_process = <<>>
    /\ LET value == [user_id |-> rs.user_id, resource_id |-> rs.resource_id,
                     direct_permissions |-> rs.direct,
                     inherited_permissions |-> rs.inherited,
                     effective_permissions |-> merge_permissions(rs.direct, rs.inherited),
                     role |-> get_user_role(rs.user_id, rs.resource_id)]
       IN  /\ cache' = MapInsert(cache, <<rs.user_id, rs.resource_id>>, value)
           /\ resolved' = value
    /\ rs' = IdleResolve
    /\ UNCHANGED <<members, hierarchy, config, written,
                   otVars, sessVars, convVars, mergeVars, treeVars>>

ResIdle ==
    /\ config = DefaultConfig
    /\ cache = EmptyMap
    /\ rs = IdleResolve
    /\ resolved = NotResolved
    /\ written = {}

\* The store of the session specification: the session's id is the id of its
\* project (handlers/collaboration.rs passes project_id as the key); u1 is a
\* member holding read and write, u2 a viewer holding read only; no parents.
SessionStore ==
    /\ members = [k \in {<<"s1", "u1">>, <<"s1", "u2">>} |->
                    IF k[2] = "u1"
                      THEN [role |-> "member", permissions |-> <<"read", "write">>]
                      ELSE [role |-> "viewer", permissions |-> <<"read">>]]
    /\ hierarchy = {}

\* The stores the kernel and submission-order checks leave untouched
EmptyStore ==
    /\ members = EmptyMap
    /\ hierarchy = {}

\* Rows the resolver checks give a user on a resource
RowOptions ==
    {[role |-> "viewer", permissions |-> <<"read">>],
     [role |-> "member", permissions |-> <<"write", "read">>],
     [role |-> "admin", permissions |-> <<>>]}

ResUsers == {"u1"}

Edges == {e \in Resources \X Resources : e[1] # e[2]}

\* The configs an engine is constructed with: inheritance on with each depth
\* cap, and inheritance off
Configs ==
    {[enabled |-> TRUE, max_depth |-> d] : d \in 0..MaxDepthCfg}
      \cup {[enabled |-> FALSE, max_depth |-> DefaultMaxDepth]}

\* The resource resolve is asked about. The stores drawn are closed under
\* renaming of the resources, so one target covers every position in them.
ResolveTargets == {"A"}

InitRes ==
    /\ \E withRow \in SUBSET (Resources \X ResUsers) :
          members \in [withRow -> RowOptions]
    /\ hierarchy \in SUBSET Edges
    /\ config \in Configs
    /\ cache = EmptyMap
    /\ rs = IdleResolve
    /\ resolved = NotResolved
    /\ written = {}
    /\ SessIdle
    /\ OTIdle
    /\ ConvIdle
    /\ MergeIdle
    /\ TreeIdle

Resolve == \E u \in ResUsers, r \in ResolveTargets : ResolveStart(u, r)

NextRes ==
    \/ Resolve
    \/ TraverseStep
    \/ ResolveFinish

SpecRes == InitRes /\ [][NextRes]_vars

(***************************************************************************)
(* Kernel specification: Init draws a document and two operations, the     *)
(* action computes both sides of the TP1 square.                           *)
(***************************************************************************)
InitOT ==
    /\ otS \in Docs
    /\ \E ia \in OpIds, ib \in OpIds :
          /\ ia # ib
          /\ otA \in KernelOps(ia)
          /\ otB \in KernelOps(ib)
    /\ otPc = "start"
    /\ otLeft = <<>>
    /\ otRight = <<>>
    /\ SessIdle
    /\ ConvIdle
    /\ MergeIdle
    /\ TreeIdle
    /\ EmptyStore
    /\ ResIdle

OTTransformBoth ==
    /\ otPc = "start"
    /\ otLeft' = OTEngine_apply_operation(OTEngine_apply_operation(otS, otA),
                                          transform_against(otB, otA))
    /\ otRight' = OTEngine_apply_operation(OTEngine_apply_operation(otS, otB),
                                           transform_against(otA, otB))
    /\ otPc' = "done"
    /\ UNCHANGED <<otS, otA, otB, sessVars, convVars, mergeVars, treeVars, resVars>>

NextOT == OTTransformBoth

SpecOT == InitOT /\ [][NextOT]_vars

\* validate_operation accepts op on the document S
ValidOn(op, S) == validate_operation(op, Len(S)) = "Ok"

\* C1: TP1 convergence of the kernel. For every document S and every pair of
\* Insert/Delete operations a, b valid on S (distinct ids), applying a and then
\* b transformed against a gives the same document as applying b and then a
\* transformed against b.
C1_TP1 ==
    (otPc = "done" /\ ValidOn(otA, otS) /\ ValidOn(otB, otS)) => otLeft = otRight

(***************************************************************************)
(* Session specification                                                   *)
(***************************************************************************)
Init == SessIdle /\ OTIdle /\ ConvIdle /\ MergeIdle /\ TreeIdle /\ SessionStore /\ ResIdle

Create == \E t \in Threads, s \in Sessions, f \in Files : CreateCheck(t, s, f)

CreateStep == \E t \in Threads : CreateInsertSession(t) \/ CreateInsertChannel(t)

Join == \E s \in Sessions, u \in Users : join_session(s, u)

Leave == \E s \in Sessions, u \in Users : leave_session(s, u)

UpdateCursor ==
    \E s \in Sessions, u \in Users, c \in CursorInputs : update_cursor(s, u, c)

Submit == \E s \in Sessions, op \in SubmitOps : apply_operation(s, op)

Close == \E t \in Threads, s \in Sessions : CloseRemoveSession(t, s)

CloseStep == \E t \in Threads : CloseRemoveChannel(t)

DetectConflicts ==
    \E s \in Sessions, v \in IncomingVersions : DetectConflictsCall(s, v)

Next ==
    \/ Create
    \/ CreateStep
    \/ Join
    \/ Leave
    \/ UpdateCursor
    \/ Submit
    \/ Close
    \/ CloseStep
    \/ DetectConflicts

Spec == Init /\ [][Next]_vars

\* C3: in every reachable state of a session the version equals the number of
\* entries of its operations log, and the versions returned by the successful
\* submits on it, in the order the submits took the guard, are 1, 2, ..., n:
\* each submit raises the version by exactly 1 and returns the new value, and
\* no two submits return the same version.
C3_VersionIsLogLength ==
    \A s \in DOMAIN active_sessions :
        /\ active_sessions[s].version = Len(active_sessions[s].operations)
        /\ returned[s] = [i \in 1..active_sessions[s].version |-> i]

\* C3 witness: two submits by different users have succeeded on one session.
C3_Witness ==
    \E s \in DOMAIN active_sessions :
        /\ active_sessions[s].version = 2
        /\ active_sessions[s].operations[1].user_id
              # active_sessions[s].operations[2].user_id
        /\ result = OkU32(2)


\* C4: the operation a successful submit appends carries version = (session
\* version before the submit) + 1 whatever the client supplied, so the version
\* fields of the log, read in log order, are 1, 2, ..., n.
C4_LogVersionsAreStamped ==
    \A s \in DOMAIN active_sessions :
        \A i \in 1..Len(active_sessions[s].operations) :
            active_sessions[s].operations[i].version = i

\* has_permission for a resource without enabled parents: the traversal pops
\* (resource, 0), finds no parent and returns no contribution, so the effective
\* permissions are the merged direct ones.
HoldsPermission(user_id, resource_id, permission) ==
    Contains(merge_permissions(get_direct_permissions(user_id, resource_id), <<>>),
             permission)

\* C5: a submit by a user who does not hold the write permission on the
\* session's project returns an error (Forbidden) and leaves the session
\* (version, log, participants) and the broadcast channel as they were.
C5_ForbiddenWithoutWrite ==
    [][\A s \in Sessions, op \in SubmitOps :
         (/\ apply_operation(s, op)
          /\ s \in DOMAIN active_sessions
          /\ ~HoldsPermission(op.user_id, s, "write"))
         => (/\ result'.status = "Err"
             /\ UNCHANGED <<active_sessions, channels>>)]_vars

\* An operation that validate_operation rejects for every document length
FailsValidation(op) == \A n \in 0..MaxDocLen : validate_operation(op, n) # "Ok"

\* C6: a submit whose operation fails validation returns an error and leaves
\* the session's version and operations log unchanged.
C6_InvalidRejected ==
    [][\A s \in Sessions, op \in SubmitOps :
         (/\ apply_operation(s, op)
          /\ s \in DOMAIN active_sessions
          /\ FailsValidation(op))
         => (/\ result'.status = "Err"
             /\ active_sessions'[s].version = active_sessions[s].version
             /\ active_sessions'[s].operations = active_sessions[s].operations)]_vars

\* C7: a submit whose author is not a participant of the session is rejected
\* with an error (NotInSession) and leaves the version and the operations log
\* unchanged.
C7_NonParticipantRejected ==
    [][\A s \in Sessions, op \in SubmitOps :
         (/\ apply_operation(s, op)
          /\ s \in DOMAIN active_sessions
          /\ op.user_id \notin DOMAIN active_sessions[s].participants)
         => (/\ result'.status = "Err"
             /\ active_sessions'[s].version = active_sessions[s].version
             /\ active_sessions'[s].operations = active_sessions[s].operations)]_vars

\* handle_websocket's forwarding task: what the subscriber of user_id, attached
\* since the channel was created, is sent of the channel's messages
Delivered(sent, user_id) == SelectSeq(sent, LAMBDA msg : msg.user_id # user_id)

\* C8: every successful submit publishes the applied operation on the session's
\* channel exactly once: each subscriber other than the author is delivered it
\* once, after what it had, and the author's subscriber is delivered nothing.
C8_SubmitPublishesOnce ==
    [][\A s \in Sessions, op \in SubmitOps :
         (/\ apply_operation(s, op)
          /\ s \in DOMAIN active_sessions
          /\ s \in DOMAIN channels)
         => (/\ channels'[s].sent =
                  Append(channels[s].sent,
                         active_sessions'[s].operations[Len(active_sessions'[s].operations)])
             /\ \A u \in Users :
                  Delivered(channels'[s].sent, u) =
                    IF u = op.user_id
                      THEN Delivered(channels[s].sent, u)
                      ELSE Append(Delivered(channels[s].sent, u),
                                  active_sessions'[s].operations[
                                      Len(active_sessions'[s].operations)]))]_vars

(***************************************************************************)
(* Submission-order specification: two fresh sessions of one manager       *)
(* receive the same two operations, "ab" in the order a, b and "ba" in     *)
(* the order b, a.                                                         *)
(***************************************************************************)
ConvSessions == {"ab", "ba"}

\* Every Insert/Delete shape at observed version 0, valid or not
ConvOps(id, user_id) ==
    {Insert(id, 0, user_id, p, c) : p \in 0..(MaxDocLen + 1), c \in Contents}
      \cup
    {Delete(id, 0, user_id, p, l) : p \in 0..(MaxDocLen + 1), l \in 0..(MaxDocLen + 1)}

InitConv ==
    /\ convS \in Docs
    /\ convA \in ConvOps(1, "u1")
    /\ convB \in ConvOps(2, "u2")
    /\ active_sessions = [s \in ConvSessions |-> NewSessionState(s, "f1")]
    /\ channels = [s \in ConvSessions |-> NewChannel]
    /\ thread = [t \in Threads |-> IdleThread]
    /\ result = OkUnit
    /\ returned = [s \in ConvSessions |-> <<>>]
    /\ OTIdle
    /\ EmptyStore
    /\ ResIdle
    /\ MergeIdle
    /\ TreeIdle

SubmissionOrder(s) == IF s = "ab" THEN <<convA, convB>> ELSE <<convB, convA>>

ConvSubmit(s) ==
    /\ Len(active_sessions[s].operations) < 2
    /\ apply_operation(s, SubmissionOrder(s)[Len(active_sessions[s].operations) + 1])

NextConv == \E s \in ConvSessions : ConvSubmit(s)

SpecConv == InitConv /\ [][NextConv]_vars

\* the document a log produces: its operations applied in order
RECURSIVE ApplyLog(_, _)
ApplyLog(content, operations) ==
    IF operations = <<>> THEN content
    ELSE ApplyLog(OTEngine_apply_operation(content, Head(operations)), Tail(operations))

\* C2: for two Insert operations a (author u1) and b (author u2) that carry
\* observed version 0 and are valid on S, the log of a fresh session after
\* submitting a then b and the log after submitting b then a produce the same
\* document from S.
C2_SubmitOrderConverges ==
    (/\ Len(active_sessions["ab"].operations) = 2
     /\ Len(active_sessions["ba"].operations) = 2
     /\ convA.kind = "Insert"
     /\ convB.kind = "Insert"
     /\ ValidOn(convA, convS)
     /\ ValidOn(convB, convS))
    => ApplyLog(convS, active_sessions["ab"].operations)
         = ApplyLog(convS, active_sessions["ba"].operations)

(***************************************************************************)
(* Resolver claims                                                         *)
(***************************************************************************)
HasResolved == resolved.role # "none"

\* C9: the inherited-permission traversal terminates on every hierarchy,
\* cycles included, and no source id appears more than once in the list of
\* inherited contributions resolve returns.
C9_NoSourceTwice ==
    HasResolved =>
        \A i, j \in 1..Len(resolved.inherited_permissions) :
            resolved.inherited_permissions[i].source_id
              = resolved.inherited_permissions[j].source_id => i = j

\* C10: every inherited contribution resolve returns has a depth between 1 and
\* the configured max_depth.
C10_DepthWithinMax ==
    HasResolved =>
        \A i \in 1..Len(resolved.inherited_permissions) :
            /\ resolved.inherited_permissions[i].depth >= 1
            /\ resolved.inherited_permissions[i].depth <= config.max_depth

\* The traversal part of C9 on its own. Each iteration of the loop either drops
\* the popped entry or marks a resource processed and pushes at most one entry
\* per parent, so this measure falls at every iteration and the loop ends.
TraversalMeasure(r) ==
    Cardinality(Resources \ r.processed) * (Cardinality(Resources) + 1)
      + Len(r.to_process)

TraversalDecreases ==
    [][TraverseStep => TraversalMeasure(rs') < TraversalMeasure(rs)]_vars

\* The resources d enabled parent edges above resource_id (get_parents iterated)
RECURSIVE AncestorsAt(_, _)
AncestorsAt(resource_id, d) ==
    IF d = 0 THEN {resource_id}
    ELSE UNION {get_parents(x) : x \in AncestorsAt(resource_id, d - 1)}

\* The resources on which the user's row holds the token
HeldOn(user_id, tok) ==
    {x \in Resources : Contains(get_direct_permissions(user_id, x), tok)}

\* C11: a token the user holds only on one ancestor of the resource is in the
\* effective permissions exactly when that ancestor is at most max_depth
\* enabled parent edges above the resource, whether or not the ancestors in
\* between carry a grant for the user.
C11_ReachesThroughUngranted ==
    (HasResolved /\ config.enabled) =>
        \A tok \in {TokenOrder[i] : i \in 1..Len(TokenOrder)}, x \in Resources :
            (HeldOn(resolved.user_id, tok) = {x} /\ x # resolved.resource_id)
            => (Contains(resolved.effective_permissions, tok)
                <=> \E d \in 1..config.max_depth :
                        x \in AncestorsAt(resolved.resource_id, d))

\* The total order of roles: viewer < member < admin < owner
RoleOrder == <<"viewer", "member", "admin", "owner">>

RoleRank(role) == CHOOSE i \in 1..Len(RoleOrder) : RoleOrder[i] = role

\* The highest from_role among a non-empty list of inherited contributions
HighestRole(inherited) ==
    CHOOSE role \in {inherited[i].from_role : i \in 1..Len(inherited)} :
        \A j \in 1..Len(inherited) : RoleRank(inherited[j].from_role) <= RoleRank(role)

\* C12: the role resolve returns is the user's direct role on the resource
\* when a direct row exists, otherwise the highest role among the inherited
\* contributions, otherwise viewer.
C12_RoleDerivation ==
    HasResolved =>
        resolved.role =
            IF <<resolved.resource_id, resolved.user_id>> \in DOMAIN members
              THEN members[<<resolved.resource_id, resolved.user_id>>].role
            ELSE IF resolved.inherited_permissions # <<>>
              THEN HighestRole(resolved.inherited_permissions)
            ELSE "viewer"

(***************************************************************************)
(* merge_permissions on its own: any direct list and any list of inherited *)
(* contributions, unsorted and with repeats, as in test_merge_permissions  *)
(***************************************************************************)
MergeTokens == {"admin", "read", "write"}

MergeContribution(perms) ==
    [source_id |-> "B", permissions |-> perms, depth |-> 1, from_role |-> "admin"]

InitMerge ==
    /\ merge_direct \in SeqsUpTo(MergeTokens, MaxPermsLen)
    /\ merge_inherited \in
          SeqsUpTo({MergeContribution(perms) :
                       perms \in SeqsUpTo(MergeTokens, MaxPermsLen) \ {<<>>}},
                   MaxContribs)
    /\ merge_result = None
    /\ TreeIdle
    /\ OTIdle
    /\ SessIdle
    /\ ConvIdle
    /\ EmptyStore
    /\ ResIdle

MergeCall ==
    /\ merge_result = None
    /\ merge_result' = Some(merge_permissions(merge_direct, merge_inherited))
    /\ UNCHANGED <<merge_direct, merge_inherited, treeVars, otVars, sessVars, convVars,
                   resVars>>

NextMerge == MergeCall

SpecMerge == InitMerge /\ [][NextMerge]_vars

\* C13: a token is in the effective permissions exactly when it is in the
\* direct tokens or in the tokens of at least one inherited contribution, and
\* the returned list is sorted ascending with no duplicates.
C13_EffectiveIsSortedUnion ==
    merge_result # None =>
        LET effective == merge_result[1]
        IN  /\ \A tok \in MergeTokens :
                 Contains(effective, tok)
                   <=> \/ Contains(merge_direct, tok)
                       \/ \E i \in 1..Len(merge_inherited) :
                             Contains(merge_inherited[i].permissions, tok)
            /\ \A i \in 1..(Len(effective) - 1) :
                 TokenRank(effective[i]) < TokenRank(effective[i + 1])

\* C13 witness: an unsorted direct list with a repeat merged with a
\* contribution that adds a token sorting before them.
C13_Witness ==
    /\ merge_direct = <<"write", "write">>
    /\ merge_inherited = <<MergeContribution(<<"read", "admin">>)>>
    /\ merge_result = Some(<<"admin", "read", "write">>)

(***************************************************************************)
(* Cache specification: one InheritanceEngine serving resolve while the    *)
(* handlers write member rows and hierarchy edges. The acting              *)
(* administrator passes the handlers' rbac checks and is not one of the    *)
(* users resolved.                                                         *)
(***************************************************************************)
CacheResources == {"A", "B"}

\* Option<String> / Option<Vec<String>> fields of the update request
ReqRoles == {None} \cup {Some(row.role) : row \in RowOptions}

ReqPermissions == {None} \cup {Some(row.permissions) : row \in RowOptions}

CacheFrame == UNCHANGED <<config, cache, rs, resolved, otVars, sessVars, convVars, mergeVars, treeVars>>

\* handlers/teams.rs add_project_member: INSERT .. ON CONFLICT DO NOTHING
add_project_member(project_id, user_id_to_add, row) ==
    /\ members' = IF <<project_id, user_id_to_add>> \in DOMAIN members
                    THEN members
                    ELSE MapInsert(members, <<project_id, user_id_to_add>>, row)
    /\ written' = written \cup {<<user_id_to_add, project_id>>}
    /\ UNCHANGED hierarchy
    /\ CacheFrame

\* handlers/teams.rs update_project_member: UPDATE .. SET role = COALESCE($1,
\* role), permissions = COALESCE($2, permissions)
update_project_member(project_id, member_user, req_role, req_permissions) ==
    /\ members' =
          IF <<project_id, member_user>> \in DOMAIN members
            THEN [members EXCEPT ![<<project_id, member_user>>] =
                    [role |-> IF req_role = None THEN @.role ELSE req_role[1],
                     permissions |-> IF req_permissions = None THEN @.permissions
                                     ELSE req_permissions[1]]]
            ELSE members
    /\ written' = written \cup {<<member_user, project_id>>}
    /\ UNCHANGED hierarchy
    /\ CacheFrame

\* handlers/teams.rs remove_project_member: DELETE
remove_project_member(project_id, member_user) ==
    /\ members' = MapRemove(members, <<project_id, member_user>>)
    /\ written' = written \cup {<<member_user, project_id>>}
    /\ UNCHANGED hierarchy
    /\ CacheFrame

\* handlers/inheritance.rs create_project_hierarchy with inheritance_enabled
\* true: INSERT of the edge
create_project_hierarchy(parent_project_id, child_project_id) ==
    /\ hierarchy' = hierarchy \cup {<<parent_project_id, child_project_id>>}
    /\ UNCHANGED <<members, written>>
    /\ CacheFrame

InitCache ==
    /\ EmptyStore
    /\ ResIdle
    /\ SessIdle
    /\ OTIdle
    /\ ConvIdle
    /\ MergeIdle
    /\ TreeIdle

AddMember ==
    \E p \in CacheResources, u \in ResUsers, row \in RowOptions :
        add_project_member(p, u, row)

UpdateMember ==
    \E p \in CacheResources, u \in ResUsers, rr \in ReqRoles, rp \in ReqPermissions :
        update_project_member(p, u, rr, rp)

RemoveMember ==
    \E p \in CacheResources, u \in ResUsers : remove_project_member(p, u)

CreateHierarchy ==
    \E parent \in CacheResources, child \in CacheResources :
        parent # child /\ create_project_hierarchy(parent, child)

NextCache ==
    \/ Resolve
    \/ TraverseStep
    \/ ResolveFinish
    \/ AddMember
    \/ UpdateMember
    \/ RemoveMember
    \/ CreateHierarchy

SpecCache == InitCache /\ [][NextCache]_vars

\* The depth-1 contributions the traversal computes from the present store:
\* the enabled parents on which the user holds a non-empty grant
GrantingParents(user_id, resource_id) ==
    {parent \in get_parents(resource_id) :
        get_direct_permissions(user_id, parent) # <<>>}

\* C14: a resolve made after a write to the user's direct grant or to an edge
\* above the resource returns a result computed from the store as it is after
\* the write. resolve returns a cached entry whenever there is one, so every
\* entry the cache holds while no resolve is computing must agree with the
\* present store on the direct tokens, the role and the sources contributing
\* at depth 1.
C14_CacheIsFresh ==
    rs.pc = "idle" =>
        \A k \in DOMAIN cache :
            /\ cache[k].direct_permissions = get_direct_permissions(k[1], k[2])
            /\ cache[k].role = get_user_role(k[1], k[2])
            /\ {cache[k].inherited_permissions[i].source_id :
                   i \in {j \in 1..Len(cache[k].inherited_permissions) :
                            cache[k].inherited_permissions[j].depth = 1}}
                 = GrantingParents(k[1], k[2])

(***************************************************************************)
(* build_hierarchy_tree: the recursion, one step per call and per return   *)
(***************************************************************************)
\* get_children: the children over enabled edges, in any row order
get_children(resource_id) == {e[2] : e \in {x \in hierarchy : x[1] = resource_id}}

\* A call of build_hierarchy_tree that has fetched its children
TreeFrame(resource_id, name, children) ==
    [id |-> resource_id, name |-> name, todo |-> children, tree_children |-> <<>>]

\* The HierarchyTree a frame returns (lines 294-300)
HierarchyTree(frame) ==
    [id |-> frame.id, name |-> frame.name, children |-> frame.tree_children,
     permissions_inherited |-> frame.tree_children # <<>>]

\* get_hierarchy_tree calls build_hierarchy_tree(resource_id, _, "root")
BuildStart(resource_id) ==
    /\ tree_stack = <<>>
    /\ tree_result = None
    /\ \E children \in Orderings(get_children(resource_id)) :
          tree_stack' = <<TreeFrame(resource_id, "root", children)>>
    /\ UNCHANGED <<tree_result, otVars, sessVars, convVars, resVars, mergeVars>>

\* lines 287-290: the recursive call for the next child. The recursion has no
\* limit of its own; MaxTreeDepth caps the frames the model follows.
BuildDescend ==
    /\ tree_stack # <<>>
    /\ tree_stack[Len(tree_stack)].todo # <<>>
    /\ Len(tree_stack) < MaxTreeDepth
    /\ LET top == tree_stack[Len(tree_stack)]
           child_id == Head(top.todo)
       IN  \E children \in Orderings(get_children(child_id)) :
              tree_stack' =
                 Append([tree_stack EXCEPT ![Len(tree_stack)].todo = Tail(@)],
                        TreeFrame(child_id, "child", children))
    /\ UNCHANGED <<tree_result, otVars, sessVars, convVars, resVars, mergeVars>>

\* lines 291-300: a call whose children are all built returns its tree, which
\* the caller pushes on tree_children
BuildReturn ==
    /\ tree_stack # <<>>
    /\ tree_stack[Len(tree_stack)].todo = <<>>
    /\ LET tree == HierarchyTree(tree_stack[Len(tree_stack)])
           rest == SubSeq(tree_stack, 1, Len(tree_stack) - 1)
       IN  IF rest = <<>>
             THEN /\ tree_stack' = <<>>
                  /\ tree_result' = Some(tree)
             ELSE /\ tree_stack' = [rest EXCEPT ![Len(rest)].tree_children =
                                                   Append(@, tree)]
                  /\ UNCHANGED tree_result
    /\ UNCHANGED <<otVars, sessVars, convVars, resVars, mergeVars>>

InitTree ==
    /\ members = EmptyMap
    /\ hierarchy \in SUBSET Edges
    /\ ResIdle
    /\ TreeIdle
    /\ MergeIdle
    /\ SessIdle
    /\ OTIdle
    /\ ConvIdle

Build == \E r \in ResolveTargets : BuildStart(r)

NextTree ==
    \/ Build
    \/ BuildDescend
    \/ BuildReturn

SpecTree == InitTree /\ [][NextTree]_vars

\* C15: the descent of build_tree is bounded by max_depth and no node appears
\* more than once on a path from the root, also on a hierarchy with a cycle,
\* so that build_tree terminates.
C15_TreePathsBounded ==
    /\ Len(tree_stack) <= config.max_depth + 1
    /\ \A i, j \in 1..Len(tree_stack) :
          tree_stack[i].id = tree_stack[j].id => i = j

(***************************************************************************)
(* Session lifecycle claims                                                *)
(***************************************************************************)
\* C16: a create for a session id that already exists returns the
\* already-exists error and leaves the existing session's participants,
\* operations log, version and broadcast channel unchanged: neither the check
\* nor the insert of a create call alters a session that is there.
C16_DuplicateCreateRejected ==
    [][\A t \in Threads, s \in Sessions :
         /\ (s \in DOMAIN active_sessions /\ \E f \in Files : CreateCheck(t, s, f))
            => (/\ result' = Err("Session already exists")
                /\ UNCHANGED <<active_sessions, channels>>)
         /\ (/\ s \in DOMAIN active_sessions
             /\ thread[t].session_id = s
             /\ CreateInsertSession(t))
            => active_sessions'[s] = active_sessions[s]]_vars

\* C17: joining a user who is already a participant returns Ok and leaves the
\* whole session state unchanged (that user's cursor and selection, the other
\* participants, the log, the version); join on a session id that does not
\* exist returns not found.
C17_JoinIdempotent ==
    [][\A s \in Sessions, u \in Users :
         join_session(s, u) =>
            /\ (s \in DOMAIN active_sessions
                  /\ u \in DOMAIN active_sessions[s].participants)
               => (result' = OkUnit /\ active_sessions' = active_sessions)
            /\ s \notin DOMAIN active_sessions
               => (result' = Err("Session not found")
                   /\ active_sessions' = active_sessions)]_vars

\* C18: leave always returns Ok; it removes only the leaving user's participant
\* entry, changes nothing when the user is not a participant, and in every
\* case leaves the operations log and the version as they were.
C18_LeaveOkAndFramed ==
    [][\A s \in Sessions, u \in Users :
         leave_session(s, u) =>
            /\ result' = OkUnit
            /\ IF s \in DOMAIN active_sessions
                 THEN active_sessions' =
                        [active_sessions EXCEPT ![s].participants = MapRemove(@, u)]
                 ELSE active_sessions' = active_sessions]_vars

\* join_session, update_cursor, apply_operation, detect_conflicts and
\* get_version all take their not-found branch for the id
SessionNotFound(session_id) ==
    /\ session_id \notin DOMAIN active_sessions
    /\ get_version(session_id) = Err("Session not found")
    /\ \A v \in ClientVersions : detect_conflicts(session_id, v).status = "Err"

\* C19: a leave that empties the participant set destroys the session: from
\* then on get_version, submit, update_cursor and detect_conflicts report not
\* found for the id (and a later create starts again at version 0 with an
\* empty log).
C19_LastLeaveDestroys ==
    [][\A s \in Sessions, u \in Users :
         (/\ leave_session(s, u)
          /\ s \in DOMAIN active_sessions
          /\ DOMAIN active_sessions[s].participants = {u})
         => SessionNotFound(s)']_vars

\* C20: when close returns, the session state and its broadcast channel are
\* both gone, so that join, submit, update_cursor, detect_conflicts,
\* get_version and get_channel on the id all report not found.
C20_CloseDestroys ==
    [][\A t \in Threads :
         CloseRemoveChannel(t) =>
            (/\ SessionNotFound(thread[t].session_id)
             /\ thread[t].session_id \notin DOMAIN channels
             /\ get_channel(thread[t].session_id).status = "Err")']_vars

\* C21: update_cursor by a participant returns Ok and sets only that user's
\* position and selection, leaving the other participants' entries, the
\* operations log and the version unchanged; by a user who is not a
\* participant it returns an error (NotInSession) and changes nothing.
C21_CursorFrame ==
    [][\A s \in Sessions, u \in Users, c \in CursorInputs :
         update_cursor(s, u, c) =>
            IF s \in DOMAIN active_sessions
                 /\ u \in DOMAIN active_sessions[s].participants
              THEN /\ result' = OkUnit
                   /\ DOMAIN active_sessions' = DOMAIN active_sessions
                   /\ DOMAIN active_sessions'[s].participants
                        = DOMAIN active_sessions[s].participants
                   /\ active_sessions'[s].participants[u] =
                        [user_id |-> u,
                         cursor_position |-> Some(c.cursor_position),
                         selection_start |-> c.selection_start,
                         selection_end |-> c.selection_end]
                   /\ \A other \in DOMAIN active_sessions[s].participants \ {u} :
                        active_sessions'[s].participants[other]
                          = active_sessions[s].participants[other]
                   /\ active_sessions'[s].operations = active_sessions[s].operations
                   /\ active_sessions'[s].version = active_sessions[s].version
                   /\ UNCHANGED channels
              ELSE /\ result'.status = "Err"
                   /\ s \in DOMAIN active_sessions
                        => result' = Err("User not in session")
                   /\ UNCHANGED <<active_sessions, channels>>]_vars

\* C21 witness: u1 has set its cursor in a session with a logged operation
\* while the other participant u2 still has none.
C21_Witness ==
    \E s \in DOMAIN active_sessions :
        /\ DOMAIN active_sessions[s].participants = {"u1", "u2"}
        /\ active_sessions[s].participants["u1"].cursor_position = Some(42)
        /\ active_sessions[s].participants["u2"].cursor_position = None
        /\ active_sessions[s].version = 1
        /\ result = OkUnit

\* The indices of the logged operations at or above version v
AtOrAbove(operations, v) == {i \in 1..Len(operations) : operations[i].version >= v}

\* C22: detect_conflicts(session, V) returns exactly the logged operations
\* whose version is >= V, in log order, and changes nothing: participants, log
\* and version are the same before and after the call.
C22_DetectConflictsExactAndPure ==
    [][\A s \in Sessions, v \in IncomingVersions :
         (DetectConflictsCall(s, v) /\ s \in DOMAIN active_sessions)
         => LET operations == active_sessions[s].operations
                idx == AtOrAbove(operations, v)
                conflicts == result'.conflicts
            IN  /\ result'.status = "Ok"
                /\ Len(conflicts) = Cardinality(idx)
                /\ \A k \in 1..Len(conflicts) :
                     \E i \in idx :
                        /\ Cardinality({j \in idx : j < i}) = k - 1
                        /\ conflicts[k] = operations[i]
                /\ UNCHANGED <<active_sessions, channels>>]_vars

\* C22 witness: the log holds an operation at version 1 followed by one at
\* version 0, and detect_conflicts(1) has returned the first alone.
C22_Witness ==
    \E s \in DOMAIN active_sessions :
        /\ Len(active_sessions[s].operations) = 2
        /\ active_sessions[s].operations[1].version = 1
        /\ active_sessions[s].operations[2].version = 0
        /\ result = [status |-> "Ok",
                     conflicts |-> <<active_sessions[s].operations[1]>>]


(***************************************************************************)
(* Validation specification: Init draws one operation of any kind, with    *)
(* positions and lengths up to one past the document and at usize::MAX,    *)
(* and a document whose length is the content_length; the action calls     *)
(* validate_operation.                                                     *)
(***************************************************************************)
ValidateSizes == (0..(MaxDocLen + 1)) \cup {UsizeMax}

ValidateOps ==
    {Insert(1, 1, KernelUser, p, c) : p \in ValidateSizes, c \in Contents}
      \cup
    {Delete(1, 1, KernelUser, p, l) : p \in ValidateSizes, l \in ValidateSizes}
      \cup
    {Replace(1, 1, KernelUser, p, o, c) :
        p \in ValidateSizes, o \in SeqsUpTo(InsChars, 1), c \in SeqsUpTo(InsChars, 1)}

InitValidate ==
    /\ otS \in Docs
    /\ otA \in ValidateOps
    /\ otB = Insert(2, 1, KernelUser, 0, <<>>)
    /\ otPc = "validate"
    /\ otLeft = <<>>
    /\ otRight = <<>>
    /\ SessIdle
    /\ ConvIdle
    /\ MergeIdle
    /\ TreeIdle
    /\ EmptyStore
    /\ ResIdle

ValidateCall ==
    /\ otPc = "validate"
    /\ otLeft' \in validate_operation_outcomes(otA, Len(otS))
    /\ otPc' = "validated"
    /\ UNCHANGED <<otS, otA, otB, otRight, sessVars, convVars, mergeVars, treeVars, resVars>>

NextValidate == ValidateCall

SpecValidate == InitValidate /\ [][NextValidate]_vars

\* The condition under which the contract says validate_operation accepts.
ShouldAccept(op, n) ==
    CASE op.kind = "Insert" -> op.position <= n /\ op.content # <<>>
      [] op.kind = "Delete" ->
            op.position < n /\ op.length > 0 /\ op.position + op.length <= n
      [] op.kind = "Replace" ->
            op.position <= n /\ ~(op.old_content = <<>> /\ op.content = <<>>)

ValidationErrors ==
    {"Insert position exceeds content length", "Insert content cannot be empty",
     "Delete position exceeds content length", "Delete length must be greater than 0",
     "Delete range exceeds content length", "Replace position exceeds content length",
     "Replace must have non-empty old or new content"}

\* C23: validate_operation(op, n) returns Ok exactly when: Insert, position <= n
\* and non-empty content; Delete, position < n, length > 0 and
\* position + length <= n; Replace, position <= n and old and new content not
\* both empty. In every other case it returns an error.
C23_ValidateExact ==
    otPc = "validated" =>
        IF ShouldAccept(otA, Len(otS)) THEN otLeft = "Ok" ELSE otLeft \in ValidationErrors


(***************************************************************************)
(* Transform specification: Init draws a document and two Insert/Delete    *)
(* operations a, b with distinct ids; the action transforms a against b    *)
(* with the kernel's transform and with the session manager's.             *)
(***************************************************************************)
InitTransform ==
    /\ otS \in Docs
    /\ \E ia \in OpIds, ib \in OpIds :
          /\ ia # ib
          /\ otA \in KernelOps(ia)
          /\ otB \in KernelOps(ib)
    /\ otPc = "transform"
    /\ otLeft = <<>>
    /\ otRight = <<>>
    /\ SessIdle
    /\ ConvIdle
    /\ MergeIdle
    /\ TreeIdle
    /\ EmptyStore
    /\ ResIdle

TransformCall ==
    /\ otPc = "transform"
    /\ otLeft' = transform_against(otA, otB)
    /\ otRight' = transform_against_single(otA, otB)
    /\ otPc' = "transformed"
    /\ UNCHANGED <<otS, otA, otB, sessVars, convVars, mergeVars, treeVars, resVars>>

NextTransform == TransformCall

SpecTransform == InitTransform /\ [][NextTransform]_vars

\* a is of kind ka and b of kind kb, and both transforms have returned
Transformed(ka, kb) == otPc = "transformed" /\ otA.kind = ka /\ otB.kind = kb

\* C24: Insert-vs-Insert rule of the kernel. For a = Insert(pa, ca) and
\* b = Insert(pb, cb) the result is a with its position set to pa + len(cb) if
\* pb < pa, to pa if pb > pa, and on pb = pa to pa when a.id < b.id and to
\* pa + len(cb) otherwise; no other field of a changes.
C24_InsertInsertRule ==
    Transformed("Insert", "Insert") =>
        LET pa == otA.position
            pb == otB.position
            expected == IF pb < pa THEN pa + Len(otB.content)
                        ELSE IF pb > pa THEN pa
                        ELSE IF otA.id < otB.id THEN pa
                        ELSE pa + Len(otB.content)
        IN  otLeft = [otA EXCEPT !.position = expected]

\* The position the Insert-vs-Delete rule gives a = Insert(pa, .) against
\* b = Delete(pb, lb).
InsertDeleteRule(pa, pb, lb) ==
    IF pb >= pa THEN pa
    ELSE IF pb + lb <= pa THEN pa - lb
    ELSE pb

C26_DeleteInsertRule ==
    Transformed("Delete", "Insert") =>
        LET pa == otA.position
            la == otA.length
            pb == otB.position
        IN  IF pb < pa THEN otLeft = [otA EXCEPT !.position = pa + Len(otB.content)]
            ELSE IF pb >= pa + la THEN otLeft = otA
            ELSE (ValidOn(otA, otS) /\ ValidOn(otB, otS)) =>
                    OTEngine_apply_operation(OTEngine_apply_operation(otS, otB), otLeft)
                      = OTEngine_apply_operation(OTEngine_apply_operation(otS, otA),
                                                 transform_against(otB, otA))

\* the positions of the range [p, p + l)
Range(p, l) == {i \in 0..(p + l) : p <= i /\ i < p + l}

\* C27: Delete-vs-Delete rule of the kernel. For a = Delete(pa, la) and
\* b = Delete(pb, lb) the result is a Delete whose length is la minus the
\* number of positions common to the two ranges and whose position is pa minus
\* the number of positions of b's range before pa; a range of a that lies
\* entirely inside b's gives length 0, which apply treats as a no-op.
C27_DeleteDeleteRule ==
    Transformed("Delete", "Delete") =>
        LET ra == Range(otA.position, otA.length)
            rb == Range(otB.position, otB.length)
            expected == [otA EXCEPT
                            !.position = otA.position
                                           - Cardinality({i \in rb : i < otA.position}),
                            !.length = otA.length - Cardinality(ra \cap rb)]
        IN  /\ otLeft = expected
            /\ (ra \subseteq rb) =>
                  /\ otLeft.length = 0
                  /\ OTEngine_apply_operation(otS, otLeft) = otS

\* C28: the two transform implementations agree: for every pair of
\* Insert/Delete operations (a, b) the session manager's
\* transform_against_single(a, b) returns the same operation as the kernel's
\* transform_against(a, b).
C28_TransformsAgree ==
    otPc = "transformed" => otRight = otLeft


\* the session stored under s holds participants or logged operations
InUse(s) ==
    /\ s \in DOMAIN active_sessions
    /\ \/ DOMAIN active_sessions[s].participants # {}
       \/ active_sessions[s].operations # <<>>

\* C29: create is atomic under concurrency. Of the create calls on one id that
\* overlap, only the one that finds the id absent when it inserts goes on to
\* return Ok -- no create inserts over a session that is there -- and no step of
\* a create resets the participants, log or version of a session that holds
\* participants or logged operations, or replaces its broadcast channel.
C29_CreateAtomic ==
    [][\A t \in Threads :
         LET s == thread[t].session_id
         IN  /\ CreateInsertSession(t) => s \notin DOMAIN active_sessions
             /\ ((CreateInsertSession(t) \/ CreateInsertChannel(t)) /\ InUse(s))
                => /\ active_sessions'[s] = active_sessions[s]
                   /\ s \in DOMAIN channels => channels'[s] = channels[s]]_vars


(***************************************************************************)
(* Invalidation specification: the member-row handlers, the two cache      *)
(* clearing calls and resolve on one long-lived engine over a store        *)
(* without hierarchy edges. A resolve in flight holds what it read in rs.  *)
(***************************************************************************)
\* clear_cache: cache.clear()
clear_cache ==
    /\ cache' = EmptyMap
    /\ written' = {}
    /\ UNCHANGED <<members, hierarchy, config, rs, resolved,
                   otVars, sessVars, convVars, mergeVars, treeVars>>

\* clear_cache_for_resource: cache.remove(&(user_id, resource_id))
clear_cache_for_resource(user_id, resource_id) ==
    /\ cache' = MapRemove(cache, <<user_id, resource_id>>)
    /\ written' = written \ {<<user_id, resource_id>>}
    /\ UNCHANGED <<members, hierarchy, config, rs, resolved,
                   otVars, sessVars, convVars, mergeVars, treeVars>>

ClearCache == clear_cache

ClearCacheForResource ==
    \E u \in ResUsers, r \in CacheResources : clear_cache_for_resource(u, r)

NextClear ==
    \/ Resolve
    \/ TraverseStep
    \/ ResolveFinish
    \/ AddMember
    \/ UpdateMember
    \/ RemoveMember
    \/ ClearCache
    \/ ClearCacheForResource

SpecClear == InitCache /\ [][NextClear]_vars

\* What a traversal of the current store returns for a resource without
\* ancestors: the row's permissions, nothing inherited, the row's role.
FreshResolve(user_id, resource_id) ==
    LET direct == get_direct_permissions(user_id, resource_id)
    IN  [user_id |-> user_id, resource_id |-> resource_id,
         direct_permissions |-> direct,
         inherited_permissions |-> <<>>,
         effective_permissions |-> merge_permissions(direct, <<>>),
         role |-> get_user_role(user_id, resource_id)]

\* C30: no stale re-population of the cache. Once every write has been
\* followed by a clear of the keys it concerns and no resolve is in flight,
\* every cached entry equals what a fresh traversal of the current store
\* returns, also when a resolve that missed the cache overlapped the write and
\* the clear.
C30_NoStaleRepopulation ==
    (rs.pc = "idle" /\ written = {} /\ hierarchy = {}) =>
        \A k \in DOMAIN cache : cache[k] = FreshResolve(k[1], k[2])

====
